---- MODULE Spec2Model ----
(***************************************************************************)
(* Model of the passport bit-flip attack of passport_attack_2.py           *)
(* (run_attack_2): the attacked normalisation layers are collected and     *)
(* their bias zeroed, a random prefix of a permutation of the global       *)
(* channel index space is selected, the layers are walked in order and the *)
(* sign of the selected channels is reversed, the signature similarity is  *)
(* reported, and the model is fine-tuned with a checkpoint per epoch.      *)
(*                                                                         *)
(* Tensors are functions over 0..size-1 with integer entries.  Fractions   *)
(* (flipperc, the similarity) are exact rationals: flipperc is the         *)
(* numerator over FracDen, a similarity is a pair <<num, den>>.            *)
(***************************************************************************)
EXTENDS Integers, Sequences, FiniteSets, TLC

\* ---------------------------------------------------------------- bounds
MaxTotal == 3          \* channels of the whole model, summed over its layers
FracDen == 4           \* flipperc ranges over -2/FracDen .. (FracDen+1)/FracDen
MaxApplications == 2   \* times the flip loop is applied in SpecTwice
MaxTotalSmall == 2     \* channels of the whole model in SpecTwice and SpecFineTune
MaxEpochs == 2         \* epochs of the fine-tuning loop (100 or 30 in the source)
MaxModules == 3        \* modules of the clone walked by transfer_learning
MaxLayers == 4         \* feature layers walked by set_intermediate_keys
MaxTrainEpochs == 3    \* self.epochs of training
MaxAcc == 2            \* valid_total_acc ranges over 0..MaxAcc
MaxInterval == 2       \* self.save_interval ranges over 0..MaxInterval

ScaleVals == {-2, 0, 1}   \* entries of bn.weight before the attack
BiasVals == {1}           \* entries of bn.bias before the attack, in Spec
BiasValsFT == {-1, 1}     \* entries of bn.bias before the attack, in SpecFineTune
TrainDeltas == {-1, 1}    \* change of a trainable entry in one epoch of SGD

VARIABLES
    features,               \* model.features: sequence of [weight, bias] (the bn of each block)
    plkeys,                 \* the attacked layers, in configuration order
    flipperc,               \* args.flipperc, as numerator over FracDen
    pc,                     \* position of the script
    conv_weights_to_reset,  \* references (layer ids) to the attacked bn.weight tensors
    total_weight_size,
    idxs,                   \* the index pool
    pos,                    \* position of the walk in conv_weights_to_reset
    sim,                    \* running sum of the per-layer scores
    similarity,             \* the reported value, sim / len(conv_weights_to_reset)
    applications,           \* times the selection has been made
    features0,              \* history: features before the attack
    selected,               \* history: idxs as selected at line 262
    consumed,               \* history: widxs of every layer walked so far
    ep,                     \* epoch of the fine-tuning loop
    history,                \* the epochs recorded in history
    ckpt,                   \* the -last- checkpoint file on disk
    lastSaved,              \* history: what the last completed torch.save wrote
    csv                     \* the history csv file on disk

\* transfer_learning (classification_private.py): the copy into the clone
VARIABLES
    tl_model,               \* the plain clone: state dict of every module, and the classifier
    self_model,             \* self.model, the passport model the clone is loaded from
    tl_pos,                 \* position of the module-by-module walk
    tl_log                  \* history: how each walked module was copied

\* construct_model / setup_keys (classification_private.py)
VARIABLES
    key_type,               \* self.key_type
    pretrained_path,        \* self.pretrained_path
    passport_data,          \* self.passport_data, the dataset the keys are drawn from
    pretrained_model,       \* the reference model built by the inner setup_keys
    key_x,
    key_y,
    get_key_calls,          \* history: arguments of every passport_generator.get_key call
    set_key_calls           \* history: arguments of every passport_generator.set_key call

\* set_intermediate_keys (passport_attack_2.py)
VARIABLES
    pretrained_features,    \* pretrained_model.features: the reference layers, by id
    passport_features,      \* passport_model.features: TRUE where the layer is a passport block
    ik_x,                   \* x, the key x as projected so far
    ik_y,                   \* y, the key y as projected so far, or None
    ik_pos,                 \* position of the zip over the two feature lists
    layer_keys,             \* history: the set_key call every layer received
    applied                 \* history: every call pretrained_layer(key), in order

\* training (classification_private.py)
VARIABLES
    save_interval,          \* self.save_interval
    train_ep,               \* ep of the training loop
    best_acc,
    valid_accs,             \* history: metrics['valid_total_acc'] of every epoch so far
    saves                   \* history: every save_model / save_last_model call, in order

vars == <<features, plkeys, flipperc, pc, conv_weights_to_reset, total_weight_size,
          idxs, pos, sim, similarity, applications, features0, selected, consumed,
          ep, history, ckpt, lastSaved, csv,
          tl_model, self_model, tl_pos, tl_log,
          key_type, pretrained_path, passport_data, pretrained_model, key_x, key_y,
          get_key_calls, set_key_calls,
          pretrained_features, passport_features, ik_x, ik_y, ik_pos, layer_keys, applied,
          save_interval, train_ep, best_acc, valid_accs, saves>>

tlVars == <<tl_model, self_model, tl_pos, tl_log>>
keyVars == <<key_type, pretrained_path, passport_data, pretrained_model, key_x, key_y,
             get_key_calls, set_key_calls>>
ikVars == <<pretrained_features, passport_features, ik_x, ik_y, ik_pos, layer_keys, applied>>
trainVars == <<save_interval, train_ep, best_acc, valid_accs, saves>>
otherVars == <<tlVars, keyVars, ikVars, trainVars>>

attackVars == <<conv_weights_to_reset, total_weight_size, idxs, pos, sim, similarity,
                applications, selected, consumed>>
tuneVars == <<ep, history, ckpt, lastSaved, csv>>

\* ------------------------------------------------------------ tensor helpers
Range(s) == {s[i] : i \in 1..Len(s)}

Abs(x) == IF x < 0 THEN -x ELSE x

\* torch.sign: -1, 0 or 1
Sign(x) == IF x > 0 THEN 1 ELSE IF x < 0 THEN -1 ELSE 0

SignOf(t) == [c \in DOMAIN t |-> Sign(t[c])]

\* w.size(0)
Size(t) == Cardinality(DOMAIN t)

\* Python int() of the rational n/d (d > 0): truncation toward zero
IntTrunc(n, d) == IF n >= 0 THEN n \div d ELSE -((-n) \div d)

\* Python s[:k]: the first k elements, counted from the end when k is negative
Prefix(s, k) ==
    LET n == IF k >= 0 THEN (IF k < Len(s) THEN k ELSE Len(s))
             ELSE (IF Len(s) + k > 0 THEN Len(s) + k ELSE 0)
    IN SubSeq(s, 1, n)

\* torch.randperm(n): every ordering of 0..n-1
RandPerm(n) ==
    {p \in [1..n -> 0..(n - 1)] : \A i, j \in 1..n : i # j => p[i] # p[j]}

\* exact rationals as <<numerator, denominator>>
AddRat(a, b) == <<a[1] * b[2] + b[1] * a[2], a[2] * b[2]>>
EqRat(a, b) == a[1] * b[2] = b[1] * a[2]

RECURSIVE SumSizes(_, _)
\* total of w.size(0) over the layers named by ids
SumSizes(fs, ids) ==
    IF ids = <<>> THEN 0 ELSE Size(fs[Head(ids)].weight) + SumSizes(fs, Tail(ids))

\* ------------------------------------------------------------ inputs
\* a bn of n channels as loaded from the passport model
LayersOfSize(n, biases) ==
    {[weight |-> w, bias |-> [c \in 0..(n - 1) |-> b]] :
        w \in [0..(n - 1) -> ScaleVals], b \in biases}

RECURSIVE Models(_, _)
\* every list of layers with at most budget channels in total
Models(budget, biases) ==
    {<<>>} \cup
    UNION {UNION {{<<l>> \o m : m \in Models(budget - n, biases)} :
                     l \in LayersOfSize(n, biases)} :
              n \in 1..budget}

\* the non-empty lists of distinct layer ids of a model of n layers, in order
KeyLists(n) ==
    {k \in UNION {[1..m -> 1..n] : m \in 1..n} :
        \A i, j \in 1..Len(k) : i < j => k[i] < k[j]}

Fractions == (-2)..(FracDen + 1)

NoFile == [status |-> "none", epoch |-> 0, state_dict |-> <<>>]

\* Python None, where a key, a path or a model is absent
None == <<"None">>

\* the variables of the procedures a specification does not run, at rest
IdleTL == tl_model = <<>> /\ self_model = <<>> /\ tl_pos = 0 /\ tl_log = <<>>

IdleKeys ==
    /\ key_type = "random" /\ pretrained_path = None /\ passport_data = "valid_data"
    /\ pretrained_model = None /\ key_x = None /\ key_y = None
    /\ get_key_calls = <<>> /\ set_key_calls = <<>>

IdleIK ==
    /\ pretrained_features = <<>> /\ passport_features = <<>> /\ ik_x = None /\ ik_y = None /\ ik_pos = 0
    /\ layer_keys = <<>> /\ applied = <<>>

IdleTraining ==
    save_interval = 0 /\ train_ep = 0 /\ best_acc = 0 /\ valid_accs = <<>> /\ saves = <<>>

IdleAttack ==
    /\ features = <<>> /\ plkeys = <<>> /\ flipperc = 0 /\ features0 = <<>>
    /\ conv_weights_to_reset = <<>> /\ total_weight_size = 0 /\ idxs = <<>> /\ pos = 0
    /\ sim = <<0, 1>> /\ similarity = <<>> /\ applications = 0
    /\ selected = <<>> /\ consumed = <<>>
    /\ ep = 0 /\ history = <<>> /\ ckpt = NoFile /\ lastSaved = NoFile /\ csv = <<>>

InitWith(budget, biases) ==
    /\ features \in (Models(budget, biases) \ {<<>>})
    /\ plkeys \in KeyLists(Len(features))
    /\ flipperc \in Fractions
    /\ features0 = features
    /\ pc = "collect"
    /\ conv_weights_to_reset = <<>>
    /\ total_weight_size = 0
    /\ idxs = <<>>
    /\ pos = 0
    /\ sim = <<0, 1>>
    /\ similarity = <<>>
    /\ applications = 0
    /\ selected = <<>>
    /\ consumed = <<>>
    /\ ep = 0
    /\ history = <<>>
    /\ ckpt = NoFile
    /\ lastSaved = NoFile
    /\ csv = <<>>
    /\ IdleTL /\ IdleKeys /\ IdleIK /\ IdleTraining

Init == InitWith(MaxTotal, BiasVals)

\* ------------------------------------------------------------ the attack
\* mutant: the bias is not zeroed
ZeroBiasSkipped(b) == b

\* bn.bias.data.zero_()
ZeroBias(b) == [c \in DOMAIN b |-> 0]

\* lines 225-259: collect the attacked weights, zero the bias of their layers
CollectLayers ==
    /\ pc = "collect"
    /\ conv_weights_to_reset' = plkeys
    /\ total_weight_size' = SumSizes(features, plkeys)
    /\ features' = [f \in DOMAIN features |->
                      IF f \in Range(plkeys)
                      THEN [features[f] EXCEPT !.bias = ZeroBias(features[f].bias)]
                      ELSE features[f]]
    /\ pc' = "select"
    /\ UNCHANGED <<plkeys, flipperc, features0, idxs, pos, sim, similarity, applications,
                   selected, consumed>>
    /\ UNCHANGED tuneVars
    /\ UNCHANGED otherVars

\* mutant: the product is rounded up
SliceLenCeil(total, num) == IntTrunc(total * num + FracDen - 1, FracDen)

\* int(total_weight_size * args.flipperc)
SliceLen(total, num) == IntTrunc(total * num, FracDen)

\* lines 261-264: idxs = randperm(total)[:int(total * flipperc)]
Select ==
    /\ pc = "select"
    /\ \E randidxs \in RandPerm(total_weight_size) :
          /\ idxs' = Prefix(randidxs, SliceLen(total_weight_size, flipperc))
          /\ selected' = idxs'
    /\ sim' = <<0, 1>>
    /\ pos' = 1
    /\ consumed' = <<>>
    /\ applications' = applications + 1
    /\ pc' = "flip"
    /\ UNCHANGED <<features, plkeys, flipperc, features0, conv_weights_to_reset,
                   total_weight_size, similarity>>
    /\ UNCHANGED tuneVars
    /\ UNCHANGED otherVars

\* the boundary test of line 270: (idxs - size) < 0
InLayer(idx, size) == idx - size < 0

RECURSIVE Widxs(_, _)
\* line 270: idxs[(idxs - size) < 0]
Widxs(ix, size) ==
    IF ix = <<>> THEN <<>>
    ELSE (IF InLayer(Head(ix), size) THEN <<Head(ix)>> ELSE <<>>) \o Widxs(Tail(ix), size)

RECURSIVE RemainingNoShift(_, _)
\* mutant: the pool is filtered but not shifted by the size of the layer
RemainingNoShift(ix, size) ==
    IF ix = <<>> THEN <<>>
    ELSE (IF Head(ix) - size >= 0 THEN <<Head(ix)>> ELSE <<>>)
         \o RemainingNoShift(Tail(ix), size)

RECURSIVE Remaining(_, _)
\* line 285: idxs[(idxs - size) >= 0] - size
Remaining(ix, size) ==
    IF ix = <<>> THEN <<>>
    ELSE (IF Head(ix) - size >= 0 THEN <<Head(ix) - size>> ELSE <<>>)
         \o Remaining(Tail(ix), size)

\* mutant: every channel is reversed, whatever widxs holds
FlipAll(newsign, widxs) == [c \in DOMAIN newsign |-> newsign[c] * (-1)]

\* mutant: the selected channels are set to -1 instead of being reversed
FlipToNegative(newsign, widxs) ==
    [c \in DOMAIN newsign |-> IF c \in Range(widxs) THEN -1 ELSE newsign[c]]

\* line 277: newsign[widxs] *= -1
FlipAt(newsign, widxs) ==
    [c \in DOMAIN newsign |-> IF c \in Range(widxs) THEN newsign[c] * (-1) ELSE newsign[c]]

\* mutant: the magnitude of the weight is kept
NewWeightKeepMagnitude(w, newsign) == [c \in DOMAIN w |-> Abs(w[c]) * newsign[c]]

\* line 280: w.data.copy_(newsign)
NewWeight(w, newsign) == newsign

\* line 282: (w.data.sign() == origsign).float().mean()
Score(w, origsign) ==
    <<Cardinality({c \in DOMAIN w : Sign(w[c]) = origsign[c]}), Size(w)>>

\* lines 266-285: one iteration of the walk over conv_weights_to_reset
FlipLayer ==
    /\ pc = "flip"
    /\ pos <= Len(conv_weights_to_reset)
    /\ LET fidx == conv_weights_to_reset[pos]
           w == features[fidx].weight
           size == Size(w)
           widxs == Widxs(idxs, size)
           origsign == SignOf(w)
           newsign == FlipAt(origsign, widxs)
           neww == NewWeight(w, newsign)
       IN /\ features' = [features EXCEPT ![fidx].weight = neww]
          /\ sim' = AddRat(sim, Score(neww, origsign))
          /\ idxs' = Remaining(idxs, size)
          /\ consumed' = Append(consumed, widxs)
    /\ pos' = pos + 1
    /\ pc' = IF pos = Len(conv_weights_to_reset) THEN "report" ELSE "flip"
    /\ UNCHANGED <<plkeys, flipperc, features0, conv_weights_to_reset, total_weight_size,
                   similarity, applications, selected>>
    /\ UNCHANGED tuneVars
    /\ UNCHANGED otherVars

\* mutant: the sum of the scores is not divided by the number of layers
MeanNotDivided(total, n) == total

\* sim / len(conv_weights_to_reset)
Mean(total, n) == <<total[1], total[2] * n>>

\* line 287: print('signature similarity', sim / len(conv_weights_to_reset))
Report ==
    /\ pc = "report"
    /\ similarity' = Mean(sim, Len(conv_weights_to_reset))
    /\ pc' = "attacked"
    /\ UNCHANGED <<features, plkeys, flipperc, features0, conv_weights_to_reset,
                   total_weight_size, idxs, pos, sim, applications, selected, consumed>>
    /\ UNCHANGED tuneVars
    /\ UNCHANGED otherVars

Next == CollectLayers \/ Select \/ FlipLayer \/ Report

Spec == Init /\ [][Next]_vars

\* ------------------------------------------------------------ a second application
\* lines 261-287 run once more on the layers as the first run left them
Reapply ==
    /\ pc = "attacked"
    /\ applications < MaxApplications
    /\ pc' = "select"
    /\ UNCHANGED <<features, plkeys, flipperc, features0>>
    /\ UNCHANGED attackVars
    /\ UNCHANGED tuneVars
    /\ UNCHANGED otherVars

NextTwice == Next \/ Reapply

InitTwice == InitWith(MaxTotalSmall, BiasVals)

SpecTwice == InitTwice /\ [][NextTwice]_vars

\* ------------------------------------------------------------ fine-tuning
\* range(1, epochs + 1), capped
epochs == MaxEpochs

\* lines 289-294: evaluate() records epoch 0, then the loop starts
Evaluate ==
    /\ pc = "attacked"
    /\ history' = Append(history, 0)
    /\ ep' = 1
    /\ pc' = "train"
    /\ UNCHANGED <<features, plkeys, flipperc, features0, ckpt, lastSaved, csv>>
    /\ UNCHANGED attackVars
    /\ UNCHANGED otherVars

\* one epoch of SGD: only the bn.weight and bn.bias of the attacked layers require grad
Trained(fs, keys, d) ==
    [f \in DOMAIN fs |->
        IF f \in Range(keys)
        THEN [weight |-> [c \in DOMAIN fs[f].weight |-> fs[f].weight[c] + d],
              bias |-> [c \in DOMAIN fs[f].bias |-> fs[f].bias[c] + d]]
        ELSE fs[f]]

\* lines 296-316: train, test, history.append(res)
Train ==
    /\ pc = "train"
    /\ ep <= epochs
    /\ \E d \in TrainDeltas : features' = Trained(features, plkeys, d)
    /\ history' = Append(history, ep)
    /\ pc' = "save"
    /\ UNCHANGED <<plkeys, flipperc, features0, ep, ckpt, lastSaved, csv>>
    /\ UNCHANGED attackVars
    /\ UNCHANGED otherVars

\* line 318: torch.save opens the path of the previous checkpoint for writing
SaveBegin ==
    /\ pc = "save"
    /\ ckpt' = [status |-> "partial", epoch |-> ep, state_dict |-> <<>>]
    /\ pc' = "saving"
    /\ UNCHANGED <<features, plkeys, flipperc, features0, ep, history, lastSaved, csv>>
    /\ UNCHANGED attackVars
    /\ UNCHANGED otherVars

\* line 318: torch.save returns, the state dict is written in full
SaveEnd ==
    /\ pc = "saving"
    /\ ckpt' = [status |-> "complete", epoch |-> ep, state_dict |-> features]
    /\ lastSaved' = ckpt'
    /\ pc' = "csv"
    /\ UNCHANGED <<features, plkeys, flipperc, features0, ep, history, csv>>
    /\ UNCHANGED attackVars
    /\ UNCHANGED otherVars

\* lines 321-322: the history is written, the loop goes to the next epoch
WriteHistory ==
    /\ pc = "csv"
    /\ csv' = history
    /\ ep' = ep + 1
    /\ pc' = IF ep = epochs THEN "done" ELSE "train"
    /\ UNCHANGED <<features, plkeys, flipperc, features0, history, ckpt, lastSaved>>
    /\ UNCHANGED attackVars
    /\ UNCHANGED otherVars

TuningPcs == {"train", "save", "saving", "csv"}

\* the process is terminated at some point of the fine-tuning loop
Kill ==
    /\ pc \in TuningPcs
    /\ pc' = "killed"
    /\ UNCHANGED <<features, plkeys, flipperc, features0>>
    /\ UNCHANGED attackVars
    /\ UNCHANGED tuneVars
    /\ UNCHANGED otherVars

InitFineTune == InitWith(MaxTotalSmall, BiasValsFT)

NextFineTune ==
    Next \/ Evaluate \/ Train \/ SaveBegin \/ SaveEnd \/ WriteHistory \/ Kill

SpecFineTune == InitFineTune /\ [][NextFineTune]_vars

\* ------------------------------------------------------------ properties
\* the attacked layers are numbered 1..NumAttacked in the order of the walk
NumAttacked == Len(conv_weights_to_reset)
LayerSize(j) == Size(features0[conv_weights_to_reset[j]].weight)
Weight0(j) == features0[conv_weights_to_reset[j]].weight
WeightNow(j) == features[conv_weights_to_reset[j]].weight

\* number of channels of the attacked layers before layer j
Offset(j) == SumSizes(features0, SubSeq(conv_weights_to_reset, 1, j - 1))

\* the local channels of layer j named by the selected global indices
SelectedIn(j) ==
    {g - Offset(j) : g \in {h \in Range(selected) : Offset(j) <= h /\ h < Offset(j) + LayerSize(j)}}

InUnit == 0 <= flipperc /\ flipperc <= FracDen

\* floor(N * f)
FloorCount == (total_weight_size * flipperc) \div FracDen

RECURSIVE SumLens(_)
SumLens(ss) == IF ss = <<>> THEN 0 ELSE Len(Head(ss)) + SumLens(Tail(ss))

Walking == pc \in {"flip", "report", "attacked"}
Walked == pc \in {"report", "attacked"}
AfterAttack == pc = "attacked" /\ applications = 1

AllNonZero == \A j \in 1..NumAttacked : \A c \in DOMAIN Weight0(j) : Weight0(j)[c] # 0

\* C1: for a fraction in [0,1] exactly floor(N*f) distinct global indices of [0,N) are
\* selected; every index a layer consumes is a local index of that layer, and after the
\* last layer the consumed counts sum to floor(N*f) and the pool is empty.
C1_BoundaryExhaustion ==
    (Walking /\ InUnit) =>
        /\ Len(selected) = FloorCount
        /\ \A i, k \in 1..Len(selected) : i # k => selected[i] # selected[k]
        /\ \A i \in 1..Len(selected) : selected[i] \in 0..(total_weight_size - 1)
        /\ \A j \in 1..Len(consumed) : \A i \in 1..Len(consumed[j]) :
               consumed[j][i] \in 0..(LayerSize(j) - 1)
        /\ Walked => (SumLens(consumed) = FloorCount /\ idxs = <<>>)

C1_Witness ==
    /\ pc = "attacked" /\ InUnit
    /\ NumAttacked >= 2
    /\ Len(selected) >= 2 /\ Len(selected) < total_weight_size
    /\ consumed[1] # <<>> /\ consumed[2] # <<>>

\* C2: the local channels layer j flips are exactly the selected global indices of
\* [offset_j, offset_j + c_j) shifted by offset_j, each once; every selected index ends
\* in exactly one (layer, channel) pair and no two in the same pair.
C2_PartitionBijection ==
    Walking =>
        /\ \A j \in 1..Len(consumed) :
              /\ Range(consumed[j]) = SelectedIn(j)
              /\ Len(consumed[j]) = Cardinality(SelectedIn(j))
        /\ Walked =>
              /\ SumLens(consumed) = Len(selected)
              /\ UNION {{Offset(j) + consumed[j][i] : i \in 1..Len(consumed[j])} :
                           j \in 1..NumAttacked}
                 = Range(selected)

C2_Witness ==
    /\ pc = "attacked"
    /\ NumAttacked >= 2
    /\ Offset(2) \in Range(selected)
    /\ (Offset(2) - 1) \in Range(selected)
    /\ 0 \in Range(consumed[2])
    /\ (LayerSize(1) - 1) \in Range(consumed[1])

\* C3: after the attack the sign of a non-zero scale is reversed at the selected local
\* channels of its layer and kept at the others; the weights of the layers that are not
\* attacked are untouched.
C3_SignFlippedAtSelected ==
    AfterAttack =>
        /\ \A j \in 1..NumAttacked : \A c \in DOMAIN Weight0(j) :
              Weight0(j)[c] # 0 =>
                 Sign(WeightNow(j)[c]) =
                    IF c \in SelectedIn(j) THEN -Sign(Weight0(j)[c]) ELSE Sign(Weight0(j)[c])
        /\ \A f \in DOMAIN features :
              f \notin Range(plkeys) => features[f].weight = features0[f].weight

C3_Witness ==
    /\ AfterAttack
    /\ \E j \in 1..NumAttacked : \E c, d \in DOMAIN Weight0(j) :
          /\ c \in SelectedIn(j) /\ d \notin SelectedIn(j)
          /\ Weight0(j)[c] > 0 /\ WeightNow(j)[c] < 0
          /\ Weight0(j)[d] < 0 /\ WeightNow(j)[d] < 0

Unchanged(j) ==
    Cardinality({c \in DOMAIN Weight0(j) : Sign(WeightNow(j)[c]) = Sign(Weight0(j)[c])})

RECURSIVE ProdSizes(_)
ProdSizes(j) == IF j = 0 THEN 1 ELSE LayerSize(j) * ProdSizes(j - 1)

RECURSIVE SumOver(_, _)
\* sum of count(j) / LayerSize(j) over the layers 1..j, times ProdSizes(NumAttacked)
SumOver(count(_), j) ==
    IF j = 0 THEN 0
    ELSE count(j) * (ProdSizes(NumAttacked) \div LayerSize(j)) + SumOver(count, j - 1)

NotSelected(j) == LayerSize(j) - Cardinality(SelectedIn(j))

\* the unweighted mean over the attacked layers of count(j) / LayerSize(j)
MeanOf(count(_)) == <<SumOver(count, NumAttacked), NumAttacked * ProdSizes(NumAttacked)>>

\* C5: the reported similarity is the unweighted mean over the attacked layers of the
\* fraction of channels whose sign is unchanged; with all scales non-zero a layer scores
\* 1 - selected/C_out, and a single layer of N channels scores 1 - floor(N*f)/N.
C5_SimilarityIsMean ==
    AfterAttack =>
        /\ EqRat(similarity, MeanOf(Unchanged))
        /\ AllNonZero => EqRat(similarity, MeanOf(NotSelected))
        /\ (AllNonZero /\ NumAttacked = 1 /\ InUnit) =>
              EqRat(similarity, <<total_weight_size - FloorCount, total_weight_size>>)

C5_Witness ==
    /\ AfterAttack /\ AllNonZero /\ InUnit
    /\ NumAttacked = 2
    /\ LayerSize(1) # LayerSize(2)
    /\ Cardinality(SelectedIn(1)) = 1 /\ Cardinality(SelectedIn(2)) = 1
    /\ EqRat(similarity, <<1, 4>>)

\* C6 as stated: a zero scale counts as sign +1, so a selected zero channel ends with
\* sign -1 and the similarity depends only on how many channels were selected.
C6_ZeroIsPositive ==
    (AfterAttack /\ InUnit) =>
        /\ \A j \in 1..NumAttacked : \A c \in DOMAIN Weight0(j) :
              (Weight0(j)[c] = 0 /\ c \in SelectedIn(j)) => Sign(WeightNow(j)[c]) = -1
        /\ EqRat(similarity, MeanOf(NotSelected))

\* C7 as stated: a fraction outside [0,1] is rejected, no index set is selected and no
\* sign bit is flipped.
C7_OutOfRangeRejected ==
    ~InUnit =>
        /\ selected = <<>>
        /\ \A f \in DOMAIN features :
              SignOf(features[f].weight) = SignOf(features0[f].weight)

BiasZero(f) == \A c \in DOMAIN features[f].bias : features[f].bias[c] = 0

\* C8: once the layers are collected and until fine-tuning starts, every bias entry of
\* every attacked layer is zero, whatever the fraction and the selected channels, and
\* the bias of the other layers is the one they had before.
C8_BiasZeroed ==
    pc \in {"select", "flip", "report", "attacked"} =>
        \A f \in DOMAIN features :
           IF f \in Range(plkeys) THEN BiasZero(f)
           ELSE features[f].bias = features0[f].bias

C8_Witness ==
    /\ pc = "attacked"
    /\ flipperc = 0
    /\ \E f, g \in DOMAIN features :
          /\ f \in Range(plkeys) /\ ~(\A c \in DOMAIN features0[f].bias : features0[f].bias[c] = 0)
          /\ BiasZero(f)
          /\ g \notin Range(plkeys) /\ ~BiasZero(g)

\* C9: two applications with every index selected (fraction 1) leave every attacked
\* layer with the sign pattern it had before the first one.
C9_FullFlipTwice ==
    (pc = "attacked" /\ applications = 2 /\ flipperc = FracDen) =>
        \A j \in 1..NumAttacked : SignOf(WeightNow(j)) = SignOf(Weight0(j))

C9_Witness ==
    /\ pc = "attacked" /\ applications = 2 /\ flipperc = FracDen
    /\ Len(selected) = total_weight_size
    /\ \E j \in 1..NumAttacked : \E c, d \in DOMAIN Weight0(j) :
          Weight0(j)[c] > 0 /\ WeightNow(j)[c] > 0 /\ Weight0(j)[d] < 0 /\ WeightNow(j)[d] < 0

\* C10 as stated: when the process is terminated in the fine-tuning loop, the checkpoint
\* of the last completed write is on disk, complete.
C10_LastCheckpointIntact ==
    (pc = "killed" /\ lastSaved.status = "complete") => ckpt = lastSaved

\* ------------------------------------------------------------ transfer_learning
\* A state dict is a function from parameter names to values.  A ConvBlock of the clone
\* holds PlainKeys; a passport block holds no affine bn parameters but its own buffers
\* ("load conv weight, bn running mean"); a pooling module holds nothing.
PlainKeys == {"conv.weight", "bn.weight", "bn.bias", "bn.running_mean"}
PassportKeys == {"conv.weight", "bn.running_mean", "key_private"}

SourceValue(k) ==
    CASE k = "conv.weight" -> 1
      [] k = "bn.running_mean" -> 2
      [] k = "bn.weight" -> 3
      [] k = "bn.bias" -> 4
      [] OTHER -> 5

TLScales == {-1, 1}     \* what get_scale() of a passport block returns
TLBiases == {7, 8}     \* what get_bias() of a passport block returns
ClassCounts == {10, 100}

\* the modules self.model can hold at one position
SourceModules ==
    {[kind |-> "conv", sd |-> [k \in PlainKeys |-> SourceValue(k)], scale |-> 0, bias |-> 0],
     [kind |-> "pool", sd |-> [k \in {} |-> 0], scale |-> 0, bias |-> 0]}
    \cup {[kind |-> "passport", sd |-> [k \in PassportKeys |-> SourceValue(k)],
           scale |-> sc, bias |-> b] : sc \in TLScales, b \in TLBiases}

\* the freshly constructed module of the clone at the position of source module m
FreshModule(m) ==
    IF m.kind = "pool" THEN [k \in {} |-> 0] ELSE [k \in PlainKeys |-> 0]

\* Module.load_state_dict(sd, strict): the entries the target knows are copied, then a
\* strict load raises when the two key sets differ
LoadStateDict(target, sd, strict) ==
    [module |-> [k \in DOMAIN target |-> IF k \in DOMAIN sd THEN sd[k] ELSE target[k]],
     ok |-> (~strict \/ DOMAIN target = DOMAIN sd)]

\* a parameter of another shape is not copied and raises, strict or not
LoadClassifier(target, source) ==
    [module |-> IF target.classes = source.classes THEN source ELSE target,
     ok |-> target.classes = source.classes]

InitTL ==
    /\ \E n \in 1..MaxModules : \E fs \in [1..n -> SourceModules] :
       \E c0, c1 \in ClassCounts :
          /\ self_model = [features |-> fs, classifier |-> [classes |-> c0, weight |-> 1]]
          /\ tl_model = [features |-> [i \in 1..n |-> FreshModule(fs[i])],
                         classifier |-> [classes |-> c1, weight |-> 0]]
    /\ tl_pos = 0
    /\ tl_log = <<>>
    /\ pc = "tl_start"
    /\ IdleAttack /\ IdleKeys /\ IdleIK /\ IdleTraining

\* lines 191-194: tl_model.load_state_dict(self.model.state_dict()), strict
LoadWhole ==
    /\ pc = "tl_start"
    /\ LET n == Len(tl_model.features)
           loads == [i \in 1..n |->
                       LoadStateDict(tl_model.features[i], self_model.features[i].sd, TRUE)]
           cls == LoadClassifier(tl_model.classifier, self_model.classifier)
       IN /\ tl_model' = [features |-> [i \in 1..n |-> loads[i].module],
                          classifier |-> cls.module]
          /\ pc' = IF cls.ok /\ \A i \in 1..n : loads[i].ok THEN "tl_loaded" ELSE "tl_manual"
    /\ tl_pos' = 1
    /\ UNCHANGED <<self_model, tl_log>>
    /\ UNCHANGED <<keyVars, ikVars, trainVars>>
    /\ UNCHANGED <<features, plkeys, flipperc, features0, attackVars, tuneVars>>

\* mutant: only the weight is re-derived
RederiveWeightOnly(tl_m, self_m) == [tl_m EXCEPT !["bn.weight"] = self_m.scale]

\* lines 203-204: bn.weight and bn.bias of the clone are set to get_scale(), get_bias()
Rederive(tl_m, self_m) ==
    [tl_m EXCEPT !["bn.weight"] = self_m.scale, !["bn.bias"] = self_m.bias]

\* mutant: the fallback load is strict again
FallbackStrict == TRUE

\* line 202: load_state_dict(self_m.state_dict(), False)
FallbackIsStrict == FALSE

\* lines 196-204 (and 212-221, 224-233): one module of the walk
CopyModule ==
    /\ pc = "tl_manual"
    /\ tl_pos <= Len(tl_model.features)
    /\ LET tl_m == tl_model.features[tl_pos]
           self_m == self_model.features[tl_pos]
           strict == LoadStateDict(tl_m, self_m.sd, TRUE)
           loose == LoadStateDict(tl_m, self_m.sd, FallbackIsStrict)
           derivable == self_m.kind = "passport" /\ "bn.weight" \in DOMAIN tl_m
       IN IF strict.ok
          THEN /\ tl_model' = [tl_model EXCEPT !.features[tl_pos] = strict.module]
               /\ tl_log' = Append(tl_log, [module |-> tl_pos, copy |-> "strict"])
               /\ pc' = IF tl_pos = Len(tl_model.features) THEN "tl_loaded" ELSE "tl_manual"
          ELSE IF loose.ok /\ derivable
          THEN /\ tl_model' = [tl_model EXCEPT
                                 !.features[tl_pos] = Rederive(loose.module, self_m)]
               /\ tl_log' = Append(tl_log, [module |-> tl_pos, copy |-> "rederived"])
               /\ pc' = IF tl_pos = Len(tl_model.features) THEN "tl_loaded" ELSE "tl_manual"
          ELSE /\ tl_model' = [tl_model EXCEPT !.features[tl_pos] = strict.module]
               /\ tl_log' = tl_log
               /\ pc' = "tl_fatal"
    /\ tl_pos' = tl_pos + 1
    /\ UNCHANGED self_model
    /\ UNCHANGED <<keyVars, ikVars, trainVars>>
    /\ UNCHANGED <<features, plkeys, flipperc, features0, attackVars, tuneVars>>

NextTL == LoadWhole \/ CopyModule

SpecTL == InitTL /\ [][NextTL]_vars

\* the module-by-module walk has been made
FellBack == pc = "tl_loaded" /\ tl_log # <<>>

StrictFits(i) == DOMAIN tl_model.features[i] = DOMAIN self_model.features[i].sd

\* C11: a mismatch of the state dicts is never fatal; when the whole-model copy fails
\* every module is copied on its own, in order; a module whose strict copy fails is
\* copied non-strictly and gets bn.weight, bn.bias from get_scale(), get_bias(); a module
\* whose strict copy succeeds holds the state dict of its source and is not re-derived.
C11_FallbackCopy ==
    /\ pc # "tl_fatal"
    /\ (pc = "tl_loaded" /\ ~(\A i \in 1..Len(tl_model.features) : StrictFits(i))) => FellBack
    /\ FellBack =>
          /\ Len(tl_log) = Len(tl_model.features)
          /\ \A i \in 1..Len(tl_log) :
                LET tl_m == tl_model.features[i]
                    self_m == self_model.features[i]
                IN /\ tl_log[i].module = i
                   /\ IF StrictFits(i)
                      THEN /\ tl_log[i].copy = "strict"
                           /\ tl_m = self_m.sd
                      ELSE /\ tl_log[i].copy = "rederived"
                           /\ \A k \in DOMAIN tl_m \cap DOMAIN self_m.sd : tl_m[k] = self_m.sd[k]
                           /\ tl_m["bn.weight"] = self_m.scale
                           /\ tl_m["bn.bias"] = self_m.bias

C11_Witness ==
    /\ FellBack
    /\ \E i, j \in 1..Len(tl_log) :
          /\ self_model.features[i].kind = "passport" /\ tl_log[i].copy = "rederived"
          /\ tl_model.features[i]["bn.weight"] = self_model.features[i].scale
          /\ tl_model.features[i]["bn.bias"] = self_model.features[i].bias
          /\ tl_model.features[i]["conv.weight"] = 1
          /\ self_model.features[j].kind = "conv" /\ tl_log[j].copy = "strict"
          /\ tl_model.features[j]["bn.weight"] = 3

\* ------------------------------------------------------------ construct_model, setup_keys
KeyTypes == {"random", "image", "shuffle"}
Paths == {None, <<"pretrained.pth">>}
PassportData == {"valid_data", "trigger_set"}
Archs == {"alexnet", "resnet18"}
NormTypes == {"bn", "gn"}
KeySamples == {1, 2, 3}   \* the draws passport_generator.get_key can make

InitKeys ==
    /\ key_type \in KeyTypes
    /\ pretrained_path \in Paths
    /\ passport_data \in PassportData
    /\ pretrained_model = None
    /\ key_x = None
    /\ key_y = None
    /\ get_key_calls = <<>>
    /\ set_key_calls = <<>>
    /\ pc = "construct_model"
    /\ IdleAttack /\ IdleTL /\ IdleIK /\ IdleTraining

\* lines 96-105: the passport model is built and becomes self.model
ConstructModel ==
    /\ pc = "construct_model"
    /\ pc' = "setup_keys"
    /\ UNCHANGED <<keyVars, tlVars, ikVars, trainVars>>
    /\ UNCHANGED <<features, plkeys, flipperc, features0, attackVars, tuneVars>>

\* lines 72-93: the inner setup_keys builds the reference model unless the mode is random
BuildPretrained ==
    /\ pc = "setup_keys"
    /\ IF key_type # "random"
       THEN /\ \E arch \in Archs, norm \in NormTypes :
                 LET pretrained_from_torch == pretrained_path = None
                     norm_type == IF pretrained_from_torch
                                  THEN (IF arch = "alexnet" THEN "none" ELSE "bn")
                                  ELSE norm
                 IN pretrained_model' =
                       <<"model", arch, norm_type, pretrained_from_torch, pretrained_path>>
            /\ pc' = "self.setup_keys"
       ELSE /\ pretrained_model' = pretrained_model
            /\ pc' = "constructed"
    /\ UNCHANGED <<key_type, pretrained_path, passport_data, key_x, key_y,
                   get_key_calls, set_key_calls>>
    /\ UNCHANGED <<tlVars, ikVars, trainVars>>
    /\ UNCHANGED <<features, plkeys, flipperc, features0, attackVars, tuneVars>>

\* mutant: the sample count does not depend on the mode
KeyCountFixed(kt) == 20

\* line 113: n = 1 if self.key_type == 'image' else 20
KeyCount(kt) == IF kt = "image" THEN 1 ELSE 20

\* lines 112-116: the method setup_keys tests the mode again and samples key_x
SampleKeyX ==
    /\ pc = "self.setup_keys"
    /\ IF key_type # "random"
       THEN /\ \E draw \in KeySamples :
                 /\ key_x' = <<"key", KeyCount(key_type), draw>>
                 /\ get_key_calls' = Append(get_key_calls,
                       [data |-> passport_data, n |-> KeyCount(key_type), result |-> key_x'])
            /\ pc' = "key_y"
       ELSE /\ UNCHANGED <<key_x, get_key_calls>>
            /\ pc' = "constructed"
    /\ UNCHANGED <<key_type, pretrained_path, passport_data, pretrained_model, key_y,
                   set_key_calls>>
    /\ UNCHANGED <<tlVars, ikVars, trainVars>>
    /\ UNCHANGED <<features, plkeys, flipperc, features0, attackVars, tuneVars>>

\* lines 117-118: key_y is sampled
SampleKeyY ==
    /\ pc = "key_y"
    /\ \E draw \in KeySamples :
          /\ key_y' = <<"key", KeyCount(key_type), draw>>
          /\ get_key_calls' = Append(get_key_calls,
                [data |-> passport_data, n |-> KeyCount(key_type), result |-> key_y'])
    /\ pc' = "set_key"
    /\ UNCHANGED <<key_type, pretrained_path, passport_data, pretrained_model, key_x,
                   set_key_calls>>
    /\ UNCHANGED <<tlVars, ikVars, trainVars>>
    /\ UNCHANGED <<features, plkeys, flipperc, features0, attackVars, tuneVars>>

\* lines 120-121: passport_generator.set_key(pretrained_model, self.model, key_x, key_y)
SetKey ==
    /\ pc = "set_key"
    /\ set_key_calls' = Append(set_key_calls,
          [pretrained_model |-> pretrained_model, model |-> "self.model",
           key_x |-> key_x, key_y |-> key_y])
    /\ pc' = "constructed"
    /\ UNCHANGED <<key_type, pretrained_path, passport_data, pretrained_model, key_x, key_y,
                   get_key_calls>>
    /\ UNCHANGED <<tlVars, ikVars, trainVars>>
    /\ UNCHANGED <<features, plkeys, flipperc, features0, attackVars, tuneVars>>

NextKeys == ConstructModel \/ BuildPretrained \/ SampleKeyX \/ SampleKeyY \/ SetKey

SpecKeys == InitKeys /\ [][NextKeys]_vars

\* C12: with key mode random no reference model is built, no key is sampled and set_key
\* is never called; with any other mode, once the model is constructed, get_key has been
\* called exactly twice (key_x, then key_y) with n = 1 for image and n = 20 otherwise, and
\* set_key exactly once with the reference model, self.model and those two keys.
C12_KeySetup ==
    /\ key_type = "random" =>
          /\ pretrained_model = None /\ key_x = None /\ key_y = None
          /\ get_key_calls = <<>> /\ set_key_calls = <<>>
    /\ (pc = "constructed" /\ key_type # "random") =>
          LET n == IF key_type = "image" THEN 1 ELSE 20
          IN /\ Len(get_key_calls) = 2
             /\ \A i \in 1..2 : get_key_calls[i].n = n /\ get_key_calls[i].data = passport_data
             /\ pretrained_model # None
             /\ set_key_calls = <<[pretrained_model |-> pretrained_model,
                                   model |-> "self.model",
                                   key_x |-> get_key_calls[1].result,
                                   key_y |-> get_key_calls[2].result]>>

C12_Witness ==
    /\ pc = "constructed" /\ key_type = "image"
    /\ Len(set_key_calls) = 1
    /\ set_key_calls[1].key_x = <<"key", 1, 1>>
    /\ set_key_calls[1].key_y = <<"key", 1, 2>>

\* ------------------------------------------------------------ set_intermediate_keys
\* pretrained_layer(key): the key after one more reference layer
Apply(layer, key) == Append(key, layer)

\* mutant: the layer gets the key as projected through its own reference layer
KeyGivenAfter(before, after) == after

\* lines 101-103: set_key is called before the reference layer is applied
KeyGiven(before, after) == before

\* the two models are of the same architecture: as many reference as passport layers
InitIK ==
    /\ \E n \in 1..MaxLayers :
          /\ pretrained_features = [i \in 1..n |-> i]
          /\ passport_features \in [1..n -> BOOLEAN]
    /\ ik_x = <<"key_x">>
    /\ ik_y \in {None, <<"key_y">>}
    /\ ik_pos = 1
    /\ layer_keys = <<>>
    /\ applied = <<>>
    /\ pc = "set_intermediate_keys"
    /\ IdleAttack /\ IdleTL /\ IdleKeys /\ IdleTraining

ZipLen == IF Len(pretrained_features) < Len(passport_features)
          THEN Len(pretrained_features) ELSE Len(passport_features)

\* lines 99-105: one iteration of the zip over the two feature lists
ProjectKeys ==
    /\ pc = "set_intermediate_keys"
    /\ ik_pos <= ZipLen
    /\ LET pretrained_layer == pretrained_features[ik_pos]
           newx == Apply(pretrained_layer, ik_x)
           newy == IF ik_y # None THEN Apply(pretrained_layer, ik_y) ELSE ik_y
       IN /\ layer_keys' =
                IF passport_features[ik_pos]
                THEN Append(layer_keys, [layer |-> ik_pos, x |-> KeyGiven(ik_x, newx),
                                         y |-> KeyGiven(ik_y, newy)])
                ELSE layer_keys
          /\ ik_x' = newx
          /\ ik_y' = newy
          /\ applied' = applied \o <<<<pretrained_layer, "x">>>>
                        \o (IF ik_y # None THEN <<<<pretrained_layer, "y">>>> ELSE <<>>)
    /\ ik_pos' = ik_pos + 1
    /\ pc' = IF ik_pos = ZipLen THEN "keys_set" ELSE "set_intermediate_keys"
    /\ UNCHANGED <<pretrained_features, passport_features>>
    /\ UNCHANGED <<tlVars, keyVars, trainVars>>
    /\ UNCHANGED <<features, plkeys, flipperc, features0, attackVars, tuneVars>>

NextIK == ProjectKeys

SpecIK == InitIK /\ [][NextIK]_vars

\* the reference layers before position i, in order
Before(i) == SubSeq(pretrained_features, 1, i - 1)

TimesApplied(layer, key) ==
    Cardinality({k \in 1..Len(applied) : applied[k] = <<layer, key>>})

\* C13: the passport layer at position i receives key_x (and key_y) passed through the
\* reference layers before i, in order, the first layer the raw key; layers that are no
\* passport layers receive no key; with key_y absent every passport layer is given an
\* absent key_y; at the end each reference layer has been applied once to each key.
C13_IntermediateKeys ==
    pc \in {"set_intermediate_keys", "keys_set"} =>
        /\ \A k \in 1..Len(layer_keys) :
              LET i == layer_keys[k].layer
              IN /\ passport_features[i]
                 /\ layer_keys[k].x = <<"key_x">> \o Before(i)
                 /\ layer_keys[k].y = IF ik_y = None THEN None ELSE <<"key_y">> \o Before(i)
        /\ \A i \in 1..(ik_pos - 1) :
              Cardinality({k \in 1..Len(layer_keys) : layer_keys[k].layer = i})
                 = IF passport_features[i] THEN 1 ELSE 0
        /\ \A k, l \in 1..Len(layer_keys) : k < l => layer_keys[k].layer < layer_keys[l].layer
        /\ pc = "keys_set" =>
              /\ ik_pos - 1 = Len(pretrained_features)
              /\ \A i \in 1..Len(pretrained_features) :
                    /\ TimesApplied(pretrained_features[i], "x") = 1
                    /\ TimesApplied(pretrained_features[i], "y") = IF ik_y = None THEN 0 ELSE 1
              /\ ik_x = <<"key_x">> \o pretrained_features

C13_Witness ==
    /\ pc = "keys_set"
    /\ Len(passport_features) >= 3
    /\ passport_features[1] /\ ~passport_features[2] /\ passport_features[3]
    /\ Len(layer_keys) = 2
    /\ layer_keys[1].x = <<"key_x">> /\ layer_keys[1].y = <<"key_y">>
    /\ layer_keys[2].x = <<"key_x", 1, 2>> /\ layer_keys[2].y = <<"key_y", 1, 2>>

\* ------------------------------------------------------------ training
Accs == 0..MaxAcc

\* float('-inf'): below every accuracy
NegInf == (-1) - MaxAcc

InitTraining ==
    /\ save_interval \in 0..MaxInterval
    /\ train_ep = 0
    /\ best_acc = 0
    /\ valid_accs = <<>>
    /\ saves = <<>>
    /\ pc = "training"
    /\ IdleAttack /\ IdleTL /\ IdleKeys /\ IdleIK

\* lines 124-132: best_acc = -inf, epoch-0.pth is saved when save_interval > 0
StartTraining ==
    /\ pc = "training"
    /\ best_acc' = NegInf
    /\ saves' = IF save_interval > 0 THEN Append(saves, <<"epoch.pth", 0>>) ELSE saves
    /\ train_ep' = 1
    /\ pc' = "epoch"
    /\ UNCHANGED <<save_interval, valid_accs>>
    /\ UNCHANGED <<tlVars, keyVars, ikVars>>
    /\ UNCHANGED <<features, plkeys, flipperc, features0, attackVars, tuneVars>>

\* lines 135-152: train, test, append the history, save epoch-{ep}.pth on the interval
RunEpoch ==
    /\ pc = "epoch"
    /\ train_ep <= MaxTrainEpochs
    /\ \E valid_total_acc \in Accs : valid_accs' = Append(valid_accs, valid_total_acc)
    /\ saves' = IF save_interval # 0 /\ train_ep % save_interval = 0
                THEN Append(saves, <<"epoch.pth", train_ep>>) ELSE saves
    /\ pc' = "best"
    /\ UNCHANGED <<save_interval, train_ep, best_acc>>
    /\ UNCHANGED <<tlVars, keyVars, ikVars>>
    /\ UNCHANGED <<features, plkeys, flipperc, features0, attackVars, tuneVars>>

\* mutant: an accuracy equal to the best one is taken as a new best
NotWorse(best, acc) == best <= acc

\* line 154: best_acc < metrics['valid_total_acc']
Better(best, acc) == best < acc

\* lines 154-157: a new best accuracy is recorded and best.pth saved
CheckBest ==
    /\ pc = "best"
    /\ LET acc == valid_accs[Len(valid_accs)]
       IN IF Better(best_acc, acc)
          THEN /\ best_acc' = acc
               /\ saves' = Append(saves, <<"best.pth", train_ep>>)
          ELSE UNCHANGED <<best_acc, saves>>
    /\ pc' = "last"
    /\ UNCHANGED <<save_interval, train_ep, valid_accs>>
    /\ UNCHANGED <<tlVars, keyVars, ikVars>>
    /\ UNCHANGED <<features, plkeys, flipperc, features0, attackVars, tuneVars>>

\* line 159: self.save_last_model(), then the next epoch
SaveLast ==
    /\ pc = "last"
    /\ saves' = Append(saves, <<"last.pth", train_ep>>)
    /\ train_ep' = train_ep + 1
    /\ pc' = IF train_ep = MaxTrainEpochs THEN "trained" ELSE "epoch"
    /\ UNCHANGED <<save_interval, best_acc, valid_accs>>
    /\ UNCHANGED <<tlVars, keyVars, ikVars>>
    /\ UNCHANGED <<features, plkeys, flipperc, features0, attackVars, tuneVars>>

NextTraining == StartTraining \/ RunEpoch \/ CheckBest \/ SaveLast

SpecTraining == InitTraining /\ [][NextTraining]_vars

\* positions of the calls that saved file at epoch e
SavesOf(file, e) == {k \in 1..Len(saves) : saves[k] = <<file, e>>}

\* the epochs are complete: the loop is between two epochs or over
BetweenEpochs == pc \in {"epoch", "trained"} /\ valid_accs # <<>>

\* C14: after every epoch k the running best accuracy is the maximum valid_total_acc of
\* epochs 1..k; best.pth is saved at epoch k exactly when its accuracy is strictly greater
\* than every earlier one (so at epoch 1); the last model is saved once every epoch, after
\* the best.pth of that epoch.
C14_BestAndLast ==
    BetweenEpochs =>
        LET k == Len(valid_accs)
        IN /\ k = train_ep - 1
           /\ best_acc \in Range(valid_accs)
           /\ \A j \in 1..k : valid_accs[j] <= best_acc
           /\ \A j \in 1..k :
                 /\ Cardinality(SavesOf("best.pth", j)) =
                       IF \A i \in 1..(j - 1) : valid_accs[i] < valid_accs[j] THEN 1 ELSE 0
                 /\ Cardinality(SavesOf("last.pth", j)) = 1
                 /\ \A b \in SavesOf("best.pth", j) : \A l \in SavesOf("last.pth", j) : b < l
                 /\ \A l \in SavesOf("last.pth", j) : \A m \in 1..Len(saves) :
                       (m < l => saves[m][2] <= j) /\ (m > l => saves[m][2] > j)
           /\ Cardinality(SavesOf("best.pth", 1)) = 1

C14_Witness ==
    /\ pc = "trained"
    /\ valid_accs = <<1, 1, 2>>
    /\ best_acc = 2
    /\ SavesOf("best.pth", 1) # {} /\ SavesOf("best.pth", 2) = {} /\ SavesOf("best.pth", 3) # {}

====
